---- MODULE Spec2Model ----
(***************************************************************************)
(* The mock Tauri backend of the Bucket E2E suite                         *)
(* (tests/e2e/fixtures/tauri-e2e-mocks.ts): the page-side state           *)
(* window.__E2E_*__, the invoke handlers cancel_copy and move_files, the  *)
(* move_files simulation loop and the TauriE2EMock control methods; and    *)
(* the ProgressEventGenerator of tests/e2e/utils/progress-event-generator.ts, *)
(* whose simulate() is followed task by task in the same way.              *)
(*                                                                         *)
(* One step of the model is one JavaScript task: a handler call, or the   *)
(* simulation loop running from the timer that wakes it to its next       *)
(* `await new Promise(r => setTimeout(...))` or to its return.  Cancel     *)
(* requests (page.evaluate, or the application's invoke) are tasks of     *)
(* their own: none arrives in the middle of a loop task.                  *)
(*                                                                         *)
(* percent and fileProgress are IEEE doubles in the source.  They are     *)
(* modelled as exact fractions in lowest terms, [num, den].  Each of the  *)
(* operations the source applies (+, /, *100) is correctly rounded and    *)
(* therefore weakly order-preserving, and (n/n)*100 is exactly 100.       *)
(***************************************************************************)
EXTENDS Integers, Sequences, FiniteSets, TLC

\* ---------------------------------------------------------------- bounds
MaxFiles == 3
MaxEvents == 2
MaxCancels == 2
MaxRuns == 2

\* ------------------------------------------------------ program constants
BUFFER_SIZE == 8192
DefaultTotalFiles == 10
DefaultMaxEventsPerFile == 100

\* Sample inputs: simulatedSize of a mock file (0 stands for a missing or
\* zero size, which falls back to scenario.averageFileSize) and the
\* scenario's averageFileSize, which nothing keeps positive.
FileSizes == {0, BUFFER_SIZE + 1}
AverageFileSizes == {0, 2 * BUFFER_SIZE + 1}
ErrorMessages == {"Disk full"}

VARIABLES
    isTauri,                    \* window.isTauri: the init script has run
    cfg,                        \* the config captured by the init script
    E2E_EVENTS,                 \* window.__E2E_EVENTS__
    E2E_CANCELLED,              \* window.__E2E_CANCELLED__
    E2E_OPERATION_IN_PROGRESS,  \* window.__E2E_OPERATION_IN_PROGRESS__
    runs,                       \* the simulation loops started by move_files
    emitted,                    \* the emitEvent calls, in order
    cancelSnaps,                \* history: the state seen by each cancel request of an active run
    config,                     \* TauriE2EMock.config, on the test's side
    E2E_CONFIG,                 \* window.__E2E_CONFIG__
    started,                    \* history: what each move_files invocation found
    resetCalls                  \* history: the reset() calls made in a row, up to two

\* The ProgressEventGenerator of tests/e2e/utils/progress-event-generator.ts.
VARIABLES
    scenario,                   \* this.scenario (its fileCount)
    options,                    \* this.options (its failureConfig)
    aborted,                    \* this.aborted
    emittedEvents,              \* this.emittedEvents
    simulation,                 \* the simulate() call: its position, locals and result
    notified,                   \* history: the onProgress, onError and onComplete calls
    abortCalls                  \* history: the abort() calls made before simulate() returned

mockVars ==
    <<isTauri, cfg, E2E_EVENTS, E2E_CANCELLED, E2E_OPERATION_IN_PROGRESS, runs, emitted,
      cancelSnaps, config, E2E_CONFIG, started, resetCalls>>

generatorVars ==
    <<scenario, options, aborted, emittedEvents, simulation, notified, abortCalls>>

vars == <<mockVars, generatorVars>>

\* ------------------------------------------------------------- fractions
RECURSIVE GCD(_, _)
GCD(a, b) == IF b = 0 THEN a ELSE GCD(b, a % b)

Frac(n, d) == LET g == GCD(n, d) IN [num |-> n \div g, den |-> d \div g]

FracLeq(a, b) == a.num * b.den <= b.num * a.den
FracLess(a, b) == a.num * b.den < b.num * a.den

Hundred == Frac(100, 1)
Zero == Frac(0, 1)

\* ------------------------------------------------------------ the config
FailureInjections(n) ==
    {[type |-> "none", failingFileIndices |-> {}, errorMessage |-> ""]}
    \cup {[type |-> "partial", failingFileIndices |-> F, errorMessage |-> m] :
            F \in SUBSET (0 .. n - 1), m \in ErrorMessages}
    \cup {[type |-> "complete", failingFileIndices |-> {}, errorMessage |-> m] :
            m \in ErrorMessages}

\* mockFiles is the sequence of the files' simulatedSize; file paths are
\* identified with the file's index.
Configs ==
    UNION {
        {[mockFiles |-> files,
          averageFileSize |-> avg,
          failureInjection |-> fi,
          maxEventsPerFile |-> me,
          enableIntraFileProgress |-> intra] :
            files \in [1 .. n -> FileSizes],
            avg \in AverageFileSizes,
            fi \in FailureInjections(IF n = 0 THEN MaxFiles ELSE n),
            me \in 0 .. MaxEvents,
            intra \in BOOLEAN}
        : n \in 0 .. MaxFiles}

\* The configs of the pages that are followed through several runs: one
\* to MaxFiles - 1 mock files, all of the scenario's average size, and
\* maxEventsPerFile set.
PageConfigs ==
    {c \in Configs :
        /\ Len(c.mockFiles) \in 1 .. MaxFiles - 1
        /\ c.maxEventsPerFile >= 1
        /\ \A k \in 1 .. Len(c.mockFiles) : c.mockFiles[k] = 0}

\* The config the constructor builds.
DefaultConfig ==
    [mockFiles |-> <<>>,
     averageFileSize |-> 100 * 1024 * 1024,
     failureInjection |-> [type |-> "none", failingFileIndices |-> {}, errorMessage |-> ""],
     maxEventsPerFile |-> 10,
     enableIntraFileProgress |-> TRUE]

totalFiles == IF Len(cfg.mockFiles) = 0 THEN DefaultTotalFiles ELSE Len(cfg.mockFiles)

enableIntraFile == cfg.enableIntraFileProgress

maxEventsPerFile ==
    IF cfg.maxEventsPerFile = 0 THEN DefaultMaxEventsPerFile ELSE cfg.maxEventsPerFile

fileSize(fileIndex) ==
    IF fileIndex + 1 <= Len(cfg.mockFiles) /\ cfg.mockFiles[fileIndex + 1] # 0
    THEN cfg.mockFiles[fileIndex + 1]
    ELSE cfg.averageFileSize

theoreticalChunks(fileIndex) == (fileSize(fileIndex) + BUFFER_SIZE - 1) \div BUFFER_SIZE

Min(a, b) == IF a <= b THEN a ELSE b

\* (mutation: the cap of maxEventsPerFile is not applied)
eventsPerFileUncapped(fileIndex) == theoreticalChunks(fileIndex)

eventsPerFile(fileIndex) == Min(maxEventsPerFile, theoreticalChunks(fileIndex))

filePath(fileIndex) == fileIndex

\* ---------------------------------------------------- progress arithmetic
\* (mutation: the sub-step is counted from 0)
fileProgressZeroBased(chunk, events) == Frac(chunk, events)

fileProgress(chunk, events) == Frac(chunk + 1, events)

\* (mutation: the file index is left out of the sum)
overallProgressNoIndex(fileIndex, fp, total) ==
    Frac(fp.num * 100, fp.den * total)

\* (mutation: files_completed counted as fileIndex + 1)
overallProgressOffByOne(fileIndex, fp, total) ==
    Frac(((fileIndex + 1) * fp.den + fp.num) * 100, fp.den * total)

overallProgress(fileIndex, fp, total) ==
    Frac((fileIndex * fp.den + fp.num) * 100, fp.den * total)

wholeFilePercent(fileIndex, total) == Frac((fileIndex + 1) * 100, total)

\* ------------------------------------------------- the simulation loop
\* A loop task works on m, the page state it reads and writes (events,
\* inProgress) with the emitEvent calls it makes (emitted), and on its local
\* movedFiles; it ends where the loop suspends or returns (pc, fileIndex,
\* chunk).  The flag E2E_CANCELLED cannot change inside one task.
RECURSIVE fileLoop(_, _, _, _), chunkLoop(_, _, _, _, _), afterFile(_, _, _, _)

\* lines 181-194.  The model records every call, as a listener registered
\* for the event receives it; run is history: the loop that called.
emitEvent(m, r, event, payload) ==
    [m EXCEPT !.emitted = Append(@, [event |-> event, payload |-> payload, run |-> r])]

\* (mutation: the log keeps the latest event only)
pushEventReplacing(m, e) == [m EXCEPT !.events = <<e>>]

\* win.__E2E_EVENTS__.push(...): lines 347, 362 and 375
pushEvent(m, e) == [m EXCEPT !.events = Append(@, e)]

return(m, movedFiles, i) ==
    [m EXCEPT !.pc = "done", !.fileIndex = i, !.movedFiles = movedFiles]

suspend(m, movedFiles, pc, i, c) ==
    [m EXCEPT !.pc = pc, !.fileIndex = i, !.chunk = c, !.movedFiles = movedFiles]

\* (mutation: copy_complete is emitted before the final event is pushed)
completionCompleteFirst(m, movedFiles, r) ==
    LET m1 == emitEvent(m, r, "copy_complete", movedFiles)
        m2 == pushEvent(m1, [percent |-> Hundred, fileIndex |-> totalFiles - 1])
        m3 == emitEvent(m2, r, "copy_progress", Hundred)
    IN  [return(m3, movedFiles, totalFiles) EXCEPT !.inProgress = FALSE]

\* lines 374-379
completion(m, movedFiles, r) ==
    LET m1 == pushEvent(m, [percent |-> Hundred, fileIndex |-> totalFiles - 1])
        m2 == emitEvent(m1, r, "copy_progress", Hundred)
        m3 == emitEvent(m2, r, "copy_complete", movedFiles)
    IN  [return(m3, movedFiles, totalFiles) EXCEPT !.inProgress = FALSE]

\* (mutation: the recorded progress is rolled back on cancellation)
cancelledExitRollback(m, movedFiles, r, i) ==
    LET m1 == emitEvent(m, r, "copy_cancelled", [filesCompleted |-> i, movedFiles |-> <<>>])
    IN  [return(m1, <<>>, i) EXCEPT !.inProgress = FALSE, !.events = <<>>]

\* (mutation: the `return` after copy_cancelled is missing)
cancelledExitFallThrough(m, movedFiles, r, i) ==
    completion(emitEvent(m, r, "copy_cancelled",
                         [filesCompleted |-> i, movedFiles |-> movedFiles]),
               movedFiles, r)

\* (mutation: the in-progress flag is not cleared on cancellation)
cancelledExitStillActive(m, movedFiles, r, i) ==
    return(emitEvent(m, r, "copy_cancelled",
                     [filesCompleted |-> i, movedFiles |-> movedFiles]),
           movedFiles, i)

\* lines 299-304 and 335-340
cancelledExit(m, movedFiles, r, i) ==
    LET m1 == emitEvent(m, r, "copy_cancelled",
                        [filesCompleted |-> i, movedFiles |-> movedFiles])
    IN  [return(m1, movedFiles, i) EXCEPT !.inProgress = FALSE]

\* (mutation: the in-progress flag is not cleared on the error path)
completeFailureExitStillActive(m, movedFiles, r, i) ==
    return(emitEvent(m, r, "copy_error", [error |-> cfg.failureInjection.errorMessage]),
           movedFiles, i)

\* lines 307-312
completeFailureExit(m, movedFiles, r, i) ==
    LET m1 == emitEvent(m, r, "copy_error", [error |-> cfg.failureInjection.errorMessage])
    IN  [return(m1, movedFiles, i) EXCEPT !.inProgress = FALSE]

\* (mutation: index 0 is falsy and never counts as failing)
partialFailureAtTruthy(fileIndex) ==
    /\ cfg.failureInjection.type = "partial"
    /\ fileIndex # 0
    /\ fileIndex \in cfg.failureInjection.failingFileIndices

\* (mutation: the failing indices are ignored)
partialFailureAtIgnored(fileIndex) == FALSE

\* lines 314-317
partialFailureAt(fileIndex) ==
    /\ cfg.failureInjection.type = "partial"
    /\ fileIndex \in cfg.failureInjection.failingFileIndices

\* lines 344-352
intraFileEvent(m, r, i, c) ==
    LET fp == fileProgress(c, eventsPerFile(i))
        op == overallProgress(i, fp, totalFiles)
    IN  emitEvent(pushEvent(m, [percent |-> op, fileIndex |-> i, fileProgress |-> fp]),
                  r, "copy_progress", op)

\* lines 361-363
wholeFileEvent(m, r, i) ==
    LET percent == wholeFilePercent(i, totalFiles)
    IN  emitEvent(pushEvent(m, [percent |-> percent, fileIndex |-> i]),
                  r, "copy_progress", percent)

\* (mutation: the file's path is not pushed to movedFiles)
afterFileNotMoved(m, movedFiles, r, i) ==
    IF i < totalFiles - 1
    THEN suspend(m, movedFiles, "betweenFiles", i, 0)
    ELSE fileLoop(m, movedFiles, r, i + 1)

\* lines 366-371, and the loop's fileIndex++ when it does not wait
afterFile(m, movedFiles, r, i) ==
    IF i < totalFiles - 1
    THEN suspend(m, Append(movedFiles, filePath(i)), "betweenFiles", i, 0)
    ELSE fileLoop(m, Append(movedFiles, filePath(i)), r, i + 1)

\* (mutation: no cancellation check inside a file)
chunkLoopNoCancelCheck(m, movedFiles, r, i, c) ==
    IF c >= eventsPerFile(i) THEN afterFile(m, movedFiles, r, i)
    ELSE IF c < eventsPerFile(i) - 1
         THEN suspend(intraFileEvent(m, r, i, c), movedFiles, "betweenChunks", i, c)
         ELSE chunkLoop(intraFileEvent(m, r, i, c), movedFiles, r, i, c + 1)

\* lines 333-358, entered at the test `chunk < eventsPerFile`
chunkLoop(m, movedFiles, r, i, c) ==
    IF c >= eventsPerFile(i) THEN afterFile(m, movedFiles, r, i)
    ELSE IF E2E_CANCELLED THEN cancelledExit(m, movedFiles, r, i)
    ELSE IF c < eventsPerFile(i) - 1
         THEN suspend(intraFileEvent(m, r, i, c), movedFiles, "betweenChunks", i, c)
         ELSE chunkLoop(intraFileEvent(m, r, i, c), movedFiles, r, i, c + 1)

\* (mutation: no cancellation check between files)
fileLoopNoCancelCheck(m, movedFiles, r, i) ==
    IF i >= totalFiles THEN completion(m, movedFiles, r)
    ELSE IF cfg.failureInjection.type = "complete" THEN completeFailureExit(m, movedFiles, r, i)
    ELSE IF partialFailureAt(i) THEN fileLoop(m, movedFiles, r, i + 1)
    ELSE IF enableIntraFile THEN chunkLoop(m, movedFiles, r, i, 0)
    ELSE afterFile(wholeFileEvent(m, r, i), movedFiles, r, i)

\* lines 297-372, entered at the test `fileIndex < totalFiles`
fileLoop(m, movedFiles, r, i) ==
    IF i >= totalFiles THEN completion(m, movedFiles, r)
    ELSE IF E2E_CANCELLED THEN cancelledExit(m, movedFiles, r, i)
    ELSE IF cfg.failureInjection.type = "complete" THEN completeFailureExit(m, movedFiles, r, i)
    ELSE IF partialFailureAt(i) THEN fileLoop(m, movedFiles, r, i + 1)
    ELSE IF enableIntraFile THEN chunkLoop(m, movedFiles, r, i, 0)
    ELSE afterFile(wholeFileEvent(m, r, i), movedFiles, r, i)

\* ------------------------------------------------ ProgressEventGenerator
\* calculateOverallProgress: lines 36-42
calculateOverallProgress(fileIndex, fp, total) ==
    Frac((fileIndex * fp.den + fp.num) * 100, fp.den * total)

\* The scenario, as far as simulate() reads it for its events and result.
Scenarios == [fileCount : 0 .. MaxFiles]

\* generateExpectedProgressEvents(scenario, eventsPerFile): lines 48-72.  The
\* nested loops push eventsPerFile events for each file in turn, so event k
\* (from 1) is sub-step (k - 1) % eventsPerFile of file
\* (k - 1) \div eventsPerFile.  The timestamp field is left out.
generateExpectedProgressEvents(sc, perFile) ==
    [k \in 1 .. sc.fileCount * perFile |->
        LET fileIndex == (k - 1) \div perFile
            fp == Frac(((k - 1) % perFile) + 1, perFile)
        IN  [percent |-> calculateOverallProgress(fileIndex, fp, sc.fileCount),
             fileIndex |-> fileIndex,
             fileProgress |-> fp]]

\* options.failureConfig; an absent failureConfig behaves as one without
\* failing indices.
FailureConfigs(n) ==
    [failingFileIndices : SUBSET (0 .. n - 1), errorMessage : ErrorMessages]

Options(n) == [failureConfig : FailureConfigs(n)]

DefaultOptions == [failureConfig |-> [failingFileIndices |-> {}, errorMessage |-> "Disk full"]]

\* The sub-steps simulate() makes for each file: line 128.
simulateEventsPerFile == 10

\* A simulate() call that has not begun: no local has a value yet.
NoSimulation(pc) ==
    [pc |-> pc, fileIndex |-> 0, i |-> 0, completedFiles |-> <<>>, errors |-> <<>>,
     result |-> <<>>]

\* The loop of simulate() is run on a record g of what one task changes:
\* emittedEvents, notified and the fields of simulation.
RECURSIVE simulateFiles(_, _), simulateSubSteps(_, _, _)

\* (mutation: success does not look at this.aborted)
simulateReturnIgnoresAbort(g) ==
    [g EXCEPT !.pc = "returned",
              !.notified = IF aborted THEN @
                           ELSE @ \o <<[callback |-> "onProgress", arg |-> Hundred],
                                       [callback |-> "onComplete", arg |-> g.completedFiles]>>,
              !.result = <<[success |-> g.errors = <<>>,
                            completedFiles |-> g.completedFiles,
                            errors |-> g.errors]>>]

\* After the loop: lines 165-175.
simulateReturn(g) ==
    [g EXCEPT !.pc = "returned",
              !.notified = IF aborted THEN @
                           ELSE @ \o <<[callback |-> "onProgress", arg |-> Hundred],
                                       [callback |-> "onComplete", arg |-> g.completedFiles]>>,
              !.result = <<[success |-> g.errors = <<>> /\ ~aborted,
                            completedFiles |-> g.completedFiles,
                            errors |-> g.errors]>>]

\* (mutation: fileProgress counts the sub-steps finished before this one)
simulateSubStepZeroBased(g, fileIndex, i) ==
    LET fp == Frac(i, simulateEventsPerFile)
        percent == calculateOverallProgress(fileIndex, fp, scenario.fileCount)
    IN  [g EXCEPT !.emittedEvents = Append(@, [percent |-> percent, fileIndex |-> fileIndex,
                                                fileProgress |-> fp]),
                  !.notified = Append(@, [callback |-> "onProgress", arg |-> percent]),
                  !.pc = "sleeping", !.fileIndex = fileIndex, !.i = i]

\* One sub-step: lines 145-159.  The task ends in sleep().
simulateSubStep(g, fileIndex, i) ==
    LET fp == Frac(i + 1, simulateEventsPerFile)
        percent == calculateOverallProgress(fileIndex, fp, scenario.fileCount)
    IN  [g EXCEPT !.emittedEvents = Append(@, [percent |-> percent, fileIndex |-> fileIndex,
                                                fileProgress |-> fp]),
                  !.notified = Append(@, [callback |-> "onProgress", arg |-> percent]),
                  !.pc = "sleeping", !.fileIndex = fileIndex, !.i = i]

\* (mutation: a failing file is skipped without recording the error)
simulateFailingFileUnrecorded(g, fileIndex) == g

\* A failing file: lines 134-138.
simulateFailingFile(g, fileIndex) ==
    [g EXCEPT !.errors = Append(@, [message |-> options.failureConfig.errorMessage,
                                     fileIndex |-> fileIndex]),
              !.notified = Append(@, [callback |-> "onError", arg |-> fileIndex])]

\* for (let i = 0; i < eventsPerFile; i++), and line 162 after it: lines
\* 142-162.  The break of line 143 leaves this loop only.
simulateSubSteps(g, fileIndex, i) ==
    IF i >= simulateEventsPerFile \/ aborted
    THEN simulateFiles([g EXCEPT !.completedFiles = Append(@, fileIndex)], fileIndex + 1)
    ELSE simulateSubStep(g, fileIndex, i)

\* for (let fileIndex = 0; fileIndex < this.scenario.fileCount; fileIndex++):
\* lines 130-163
simulateFiles(g, fileIndex) ==
    IF fileIndex >= scenario.fileCount \/ aborted THEN simulateReturn(g)
    ELSE IF fileIndex \in options.failureConfig.failingFileIndices
         THEN simulateFiles(simulateFailingFile(g, fileIndex), fileIndex + 1)
         ELSE simulateSubSteps(g, fileIndex, 0)

\* ---------------------------------------------------------------- state
TypeOK ==
    /\ isTauri \in BOOLEAN
    /\ cfg \in Configs \cup {DefaultConfig}
    /\ E2E_CANCELLED \in BOOLEAN
    /\ E2E_OPERATION_IN_PROGRESS \in BOOLEAN
    /\ \A r \in 1 .. Len(runs) :
         /\ runs[r].pc \in {"start", "betweenChunks", "betweenFiles", "done"}
         /\ runs[r].fileIndex \in 0 .. totalFiles
    /\ Len(cancelSnaps) <= MaxCancels
    /\ config \in Configs \cup {DefaultConfig}
    /\ E2E_CONFIG \in Configs \cup {DefaultConfig}
    /\ Len(started) = Len(runs)
    /\ resetCalls \in 0 .. 2
    /\ scenario \in Scenarios
    /\ options \in Options(MaxFiles)
    /\ aborted \in BOOLEAN
    /\ simulation.pc \in {"none", "idle", "sleeping", "returned"}
    /\ simulation.fileIndex \in 0 .. MaxFiles
    /\ simulation.i \in 0 .. simulateEventsPerFile - 1
    /\ Len(simulation.result) <= 1
    /\ abortCalls \in 0 .. MaxCancels

\* A TauriE2EMock was constructed; the page has not run the init script.
Init ==
    /\ isTauri = FALSE
    /\ cfg = DefaultConfig
    /\ E2E_EVENTS = <<>>
    /\ E2E_CANCELLED = FALSE
    /\ E2E_OPERATION_IN_PROGRESS = FALSE
    /\ runs = <<>>
    /\ emitted = <<>>
    /\ cancelSnaps = <<>>
    /\ config = DefaultConfig
    /\ E2E_CONFIG = DefaultConfig
    /\ started = <<>>
    /\ resetCalls = 0
    /\ scenario = [fileCount |-> 0]
    /\ options = DefaultOptions
    /\ aborted = FALSE
    /\ emittedEvents = <<>>
    /\ simulation = NoSimulation("none")
    /\ notified = <<>>
    /\ abortCalls = 0

\* TauriE2EMock.setup() and the page load that runs its init script, with
\* the config the test's set* and injectFailure calls built: lines 135-173
\* and 556.
setupFrom(configs) ==
    /\ ~isTauri
    /\ isTauri' = TRUE
    /\ cfg' \in configs
    /\ config' = cfg'
    /\ E2E_CONFIG' = cfg'
    /\ E2E_EVENTS' = <<>>
    /\ E2E_CANCELLED' = FALSE
    /\ E2E_OPERATION_IN_PROGRESS' = FALSE
    /\ UNCHANGED <<runs, emitted, cancelSnaps, started, resetCalls, generatorVars>>

setup == setupFrom(Configs)

Last(s) == s[Len(s)]

ActiveRuns == {r \in 1 .. Len(runs) : runs[r].pc # "done"}

\* ------------------------------------------------------------- handlers
\* (mutation: the cancellation flag is left as it was)
move_filesKeepsCancelled ==
    /\ isTauri
    /\ E2E_OPERATION_IN_PROGRESS' = TRUE
    /\ runs' = Append(runs, [pc |-> "start", fileIndex |-> 0, chunk |-> 0, movedFiles |-> <<>>])
    /\ started' = Append(started,
           [resetCalls |-> resetCalls, resetSince |-> FALSE, clearedSince |-> FALSE,
            clearFailureCalled |-> started # <<>> /\ Last(started).clearedSince])
    /\ resetCalls' = 0
    /\ UNCHANGED <<isTauri, cfg, E2E_EVENTS, E2E_CANCELLED, emitted, cancelSnaps, config,
                   E2E_CONFIG, generatorVars>>

\* invoke('move_files'): lines 271-383.  The loop itself starts 10 ms later.
move_files ==
    /\ isTauri
    /\ E2E_CANCELLED' = FALSE
    /\ E2E_OPERATION_IN_PROGRESS' = TRUE
    /\ runs' = Append(runs, [pc |-> "start", fileIndex |-> 0, chunk |-> 0, movedFiles |-> <<>>])
    /\ started' = Append(started,
           [resetCalls |-> resetCalls, resetSince |-> FALSE, clearedSince |-> FALSE,
            clearFailureCalled |-> started # <<>> /\ Last(started).clearedSince])
    /\ resetCalls' = 0
    /\ UNCHANGED <<isTauri, cfg, E2E_EVENTS, emitted, cancelSnaps, config, E2E_CONFIG,
                   generatorVars>>

\* (mutation: the request toggles the flag)
setCancelledToggle ==
    /\ isTauri
    /\ E2E_CANCELLED' = ~E2E_CANCELLED
    /\ IF ActiveRuns = {}
       THEN UNCHANGED cancelSnaps
       ELSE /\ Len(cancelSnaps) < MaxCancels
            /\ cancelSnaps' = Append(cancelSnaps,
                   [events |-> E2E_EVENTS,
                    movedFiles |-> [r \in ActiveRuns |-> runs[r].movedFiles]])
    /\ resetCalls' = 0
    /\ UNCHANGED <<isTauri, cfg, E2E_EVENTS, E2E_OPERATION_IN_PROGRESS, runs, emitted,
                   config, E2E_CONFIG, started, generatorVars>>

\* What a cancel request does to the page: the flag is set.  The history
\* variable records what each request made during a run saw.
setCancelled ==
    /\ isTauri
    /\ E2E_CANCELLED' = TRUE
    /\ IF ActiveRuns = {}
       THEN UNCHANGED cancelSnaps
       ELSE /\ Len(cancelSnaps) < MaxCancels
            /\ cancelSnaps' = Append(cancelSnaps,
                   [events |-> E2E_EVENTS,
                    movedFiles |-> [r \in ActiveRuns |-> runs[r].movedFiles]])
    /\ resetCalls' = 0
    /\ UNCHANGED <<isTauri, cfg, E2E_EVENTS, E2E_OPERATION_IN_PROGRESS, runs, emitted,
                   config, E2E_CONFIG, started, generatorVars>>

\* invoke('cancel_copy'): lines 264-268
cancel_copy == setCancelled

\* TauriE2EMock.cancelOperation(): lines 629-633
cancelOperation == setCancelled

\* History: the latest move_files invocation is marked as followed by a
\* reset() or a clearFailure().
noted(s, call) ==
    IF s = <<>> THEN s ELSE [s EXCEPT ![Len(s)] = [@ EXCEPT ![call] = TRUE]]

NoFailureInjection == [type |-> "none", failingFileIndices |-> {}, errorMessage |-> ""]

\* TauriE2EMock.clearFailure(): lines 99-105.  It changes the test side's
\* config only.
clearFailure ==
    /\ config' = [config EXCEPT !.failureInjection = NoFailureInjection]
    /\ started' = noted(started, "clearedSince")
    /\ UNCHANGED <<isTauri, cfg, E2E_EVENTS, E2E_CANCELLED, E2E_OPERATION_IN_PROGRESS, runs,
                   emitted, cancelSnaps, E2E_CONFIG, resetCalls, generatorVars>>

\* TauriE2EMock.injectMocks(): lines 564-574.  The handlers read the cfg of
\* the init script, not window.__E2E_CONFIG__.
injectMocks ==
    /\ E2E_CONFIG' = IF isTauri THEN config ELSE E2E_CONFIG
    /\ UNCHANGED <<isTauri, cfg, E2E_EVENTS, E2E_CANCELLED, E2E_OPERATION_IN_PROGRESS, runs,
                   emitted, cancelSnaps, config, started, resetCalls, generatorVars>>

\* (mutation: reset() leaves the event log as it is)
resetKeepsEvents ==
    /\ isTauri
    /\ E2E_CANCELLED' = FALSE
    /\ E2E_OPERATION_IN_PROGRESS' = FALSE
    /\ config' = [config EXCEPT !.failureInjection = NoFailureInjection]
    /\ started' = noted(started, "resetSince")
    /\ resetCalls' = Min(resetCalls + 1, 2)
    /\ UNCHANGED <<isTauri, cfg, E2E_EVENTS, runs, emitted, cancelSnaps, E2E_CONFIG,
                   generatorVars>>

\* TauriE2EMock.reset(): lines 612-624
reset ==
    /\ isTauri
    /\ E2E_EVENTS' = <<>>
    /\ E2E_CANCELLED' = FALSE
    /\ E2E_OPERATION_IN_PROGRESS' = FALSE
    /\ config' = [config EXCEPT !.failureInjection = NoFailureInjection]
    /\ started' = noted(started, "resetSince")
    /\ resetCalls' = Min(resetCalls + 1, 2)
    /\ UNCHANGED <<isTauri, cfg, runs, emitted, cancelSnaps, E2E_CONFIG, generatorVars>>

\* The queries of the test side.  The page always has the log and the flag
\* once the init script ran, so the `|| []` and `|| false` defaults of
\* lines 583, 643 and 660 are never taken.
\* TauriE2EMock.getEmittedEvents(): lines 579-585
TauriE2EMock_getEmittedEvents == E2E_EVENTS

\* TauriE2EMock.isOperationActive(): lines 638-645
isOperationActive == E2E_OPERATION_IN_PROGRESS

\* TauriE2EMock.getDetailedEvents(): lines 650-662
getDetailedEvents == E2E_EVENTS

\* One task of loop r, from where it was suspended.
loopTask(r, from) ==
    LET m0 == [events |-> E2E_EVENTS, emitted |-> emitted,
               inProgress |-> E2E_OPERATION_IN_PROGRESS,
               movedFiles |-> runs[r].movedFiles,
               pc |-> runs[r].pc, fileIndex |-> runs[r].fileIndex, chunk |-> runs[r].chunk]
    IN  CASE from = "start" -> fileLoop(m0, runs[r].movedFiles, r, 0)
          [] from = "betweenFiles" ->
                fileLoop(m0, runs[r].movedFiles, r, runs[r].fileIndex + 1)
          [] from = "betweenChunks" ->
                chunkLoop(m0, runs[r].movedFiles, r, runs[r].fileIndex, runs[r].chunk + 1)

runTask(r, from) ==
    /\ r \in 1 .. Len(runs)
    /\ runs[r].pc = from
    /\ \E m \in {loopTask(r, from)} :
           /\ E2E_EVENTS' = m.events
           /\ E2E_OPERATION_IN_PROGRESS' = m.inProgress
           /\ emitted' = m.emitted
           /\ runs' = [runs EXCEPT ![r] = [pc |-> m.pc, fileIndex |-> m.fileIndex,
                                           chunk |-> m.chunk, movedFiles |-> m.movedFiles]]
    /\ resetCalls' = 0
    /\ UNCHANGED <<isTauri, cfg, E2E_CANCELLED, cancelSnaps, config, E2E_CONFIG, started,
                   generatorVars>>

\* The setTimeout(..., 10) callback of line 286 runs.
startSimulation == \E r \in 1 .. Len(runs) : runTask(r, "start")

\* The timer of line 356 fires and the loop goes on with the next chunk.
resumeBetweenChunks == \E r \in 1 .. Len(runs) : runTask(r, "betweenChunks")

\* The timer of line 370 fires and the loop goes on with the next file.
resumeBetweenFiles == \E r \in 1 .. Len(runs) : runTask(r, "betweenFiles")

timerFires == startSimulation \/ resumeBetweenChunks \/ resumeBetweenFiles

\* ------------------------------------- ProgressEventGenerator operations
\* new ProgressEventGenerator(scenario, options): lines 85-91
ProgressEventGenerator ==
    /\ simulation.pc = "none"
    /\ scenario' \in Scenarios
    /\ options' \in Options(scenario'.fileCount)
    /\ aborted' = FALSE
    /\ emittedEvents' = <<>>
    /\ simulation' = NoSimulation("idle")
    /\ UNCHANGED <<notified, abortCalls, mockVars>>

\* One task of simulate(): the record the loop works on, and its write-back.
simulationTask(g) ==
    /\ emittedEvents' = g.emittedEvents
    /\ notified' = g.notified
    /\ simulation' = [pc |-> g.pc, fileIndex |-> g.fileIndex, i |-> g.i,
                      completedFiles |-> g.completedFiles, errors |-> g.errors,
                      result |-> g.result]
    /\ UNCHANGED <<scenario, options, aborted, abortCalls, mockVars>>

simulationState ==
    [emittedEvents |-> emittedEvents, notified |-> notified, pc |-> simulation.pc,
     fileIndex |-> simulation.fileIndex, i |-> simulation.i,
     completedFiles |-> simulation.completedFiles, errors |-> simulation.errors,
     result |-> simulation.result]

\* simulate() is called: it runs to its first sleep(), or to its return:
\* lines 119-176.  The model has one simulate() call per generator state,
\* that is, per construction or reset().
simulate ==
    /\ simulation.pc = "idle"
    /\ simulationTask(simulateFiles(simulationState, 0))

\* The timer of sleep() fires: lines 159 and 178-180.
sleep ==
    /\ simulation.pc = "sleeping"
    /\ simulationTask(simulateSubSteps(simulationState, simulation.fileIndex, simulation.i + 1))

\* abort(): lines 103-105
abort ==
    /\ simulation.pc # "none"
    /\ aborted' = TRUE
    /\ IF simulation.pc = "returned"
       THEN UNCHANGED abortCalls
       ELSE abortCalls < MaxCancels /\ abortCalls' = abortCalls + 1
    /\ UNCHANGED <<scenario, options, emittedEvents, simulation, notified, mockVars>>

\* getEmittedEvents(): lines 96-98
getEmittedEvents == emittedEvents

\* ProgressEventGenerator.reset(): lines 110-113, called between simulate()
\* calls; the generator is then ready for another simulate().
generatorReset ==
    /\ simulation.pc \in {"idle", "returned"}
    /\ aborted' = FALSE
    /\ emittedEvents' = <<>>
    /\ simulation' = NoSimulation("idle")
    /\ notified' = <<>>
    /\ abortCalls' = 0
    /\ UNCHANGED <<scenario, options, mockVars>>

\* ------------------------------------------------------- specifications
\* One move_files run on a freshly set up page, with cancel requests at any
\* time before, during and after it.
move_filesOnce == runs = <<>> /\ move_files

NextRun ==
    \/ setup
    \/ move_filesOnce
    \/ cancel_copy
    \/ cancelOperation
    \/ startSimulation
    \/ resumeBetweenChunks
    \/ resumeBetweenFiles

SpecRun == Init /\ [][NextRun]_vars

\* Timers that are due do fire: the browser's event loop runs every pending
\* timer callback.
FairSpecRun == SpecRun /\ WF_vars(timerFires)

\* The life of a page: after setup, up to MaxRuns move_files runs one after
\* the other, cancel requests at any time, reset() between the runs,
\* clearFailure() and injectMocks().
setupPage == setupFrom(PageConfigs)

move_filesNext == ActiveRuns = {} /\ Len(runs) < MaxRuns /\ move_files

resetBetweenRuns == ActiveRuns = {} /\ reset

NextPage ==
    \/ setupPage
    \/ move_filesNext
    \/ cancel_copy
    \/ cancelOperation
    \/ startSimulation
    \/ resumeBetweenChunks
    \/ resumeBetweenFiles
    \/ resetBetweenRuns
    \/ clearFailure
    \/ injectMocks

SpecPage == Init /\ [][NextPage]_vars

\* Runs one after the other in one page, with cancel requests at any time
\* and no reset().
NextSequence ==
    \/ setupPage
    \/ move_filesNext
    \/ cancel_copy
    \/ cancelOperation
    \/ startSimulation
    \/ resumeBetweenChunks
    \/ resumeBetweenFiles

SpecSequence == Init /\ [][NextSequence]_vars

\* Runs that are not kept apart: move_files is invoked again after an
\* earlier run, or while an earlier simulation loop is still running, and
\* reset() is not called.
move_filesAgain == ActiveRuns # {} /\ Len(runs) < MaxRuns /\ move_files

NextOverlap ==
    \/ setupPage
    \/ move_filesNext
    \/ move_filesAgain
    \/ cancel_copy
    \/ cancelOperation
    \/ startSimulation
    \/ resumeBetweenChunks
    \/ resumeBetweenFiles

SpecOverlap == Init /\ [][NextOverlap]_vars

\* A ProgressEventGenerator: its construction, simulate() calls with
\* abort() at any time, and reset() between them.
NextGenerator ==
    \/ ProgressEventGenerator
    \/ simulate
    \/ sleep
    \/ abort
    \/ generatorReset

SpecGenerator == Init /\ [][NextGenerator]_vars

\* ------------------------------------------------------------ properties
IsPrefix(s, t) == Len(s) <= Len(t) /\ SubSeq(t, 1, Len(s)) = s

RunDone(r) == r \in 1 .. Len(runs) /\ runs[r].pc = "done"

\* The emitEvent calls of loop r for one event, as positions in emitted.
Emits(r, event) ==
    {k \in 1 .. Len(emitted) : emitted[k].run = r /\ emitted[k].event = event}

TerminalEvents == {"copy_complete", "copy_error", "copy_cancelled"}

Terminals(r) ==
    {k \in 1 .. Len(emitted) : emitted[k].run = r /\ emitted[k].event \in TerminalEvents}

\* No cancel request was made while a run was active.
NoCancellation == cancelSnaps = <<>>

NonDecreasing(events) ==
    \A k \in 1 .. Len(events) - 1 : FracLeq(events[k].percent, events[k + 1].percent)

\* The indices from i up that are not failing, in index order.
RECURSIVE SurvivorsFrom(_)
SurvivorsFrom(i) ==
    IF i >= totalFiles THEN <<>>
    ELSE IF i \in cfg.failureInjection.failingFileIndices
         THEN SurvivorsFrom(i + 1)
         ELSE <<filePath(i)>> \o SurvivorsFrom(i + 1)

\* C1: in a run without cancellation, whatever the file count, the failing
\* indices and the progress mode, the percent values of the event log never
\* decrease in append order.
C1_Monotonic == NoCancellation => NonDecreasing(E2E_EVENTS)

C1_Witness ==
    /\ RunDone(1) /\ NoCancellation
    /\ cfg.failureInjection.type = "partial"
    /\ cfg.failureInjection.failingFileIndices # {}
    /\ Len(E2E_EVENTS) >= 4
    /\ \E k \in 1 .. Len(E2E_EVENTS) - 1 :
          E2E_EVENTS[k].fileIndex + 1 < E2E_EVENTS[k + 1].fileIndex

\* C2: a run with no failure injection and no cancellation ends with
\* copy_complete; the last event of the log then has percent exactly 100, and
\* that event was appended and announced (copy_progress 100) before
\* copy_complete was emitted.
C2_EndsAtHundred ==
    \A r \in 1 .. Len(runs) :
        (RunDone(r) /\ cfg.failureInjection.type = "none" /\ NoCancellation) =>
            /\ Len(E2E_EVENTS) > 0
            /\ Last(E2E_EVENTS).percent = Hundred
            /\ Len(emitted) >= 2
            /\ Last(emitted) = [event |-> "copy_complete", payload |-> SurvivorsFrom(0), run |-> r]
            /\ emitted[Len(emitted) - 1] =
                  [event |-> "copy_progress", payload |-> Hundred, run |-> r]

C2_Witness ==
    /\ RunDone(1) /\ NoCancellation
    /\ cfg.failureInjection.type = "none"
    /\ totalFiles = 2
    /\ cfg.maxEventsPerFile = 1
    /\ Last(E2E_EVENTS).percent = Hundred

\* C3: with partial failure injection that leaves at least one file and no
\* cancellation, the run ends with copy_complete carrying exactly the files
\* whose index is not failing, in index order, and the last event has
\* percent 100.
C3_PartialFailureSkips ==
    \A r \in 1 .. Len(runs) :
        (/\ RunDone(r) /\ NoCancellation
         /\ cfg.failureInjection.type = "partial"
         /\ (0 .. totalFiles - 1) \ cfg.failureInjection.failingFileIndices # {}) =>
            /\ Cardinality(Emits(r, "copy_complete")) = 1
            /\ Last(emitted).event = "copy_complete"
            /\ Last(emitted).payload = SurvivorsFrom(0)
            /\ Len(Last(emitted).payload) =
                 totalFiles - Cardinality(cfg.failureInjection.failingFileIndices
                                            \cap (0 .. totalFiles - 1))
            /\ \A i \in cfg.failureInjection.failingFileIndices :
                 \A k \in 1 .. Len(Last(emitted).payload) : Last(emitted).payload[k] # filePath(i)
            /\ Last(E2E_EVENTS).percent = Hundred

C3_Witness ==
    /\ RunDone(1) /\ NoCancellation
    /\ cfg.failureInjection.type = "partial"
    /\ totalFiles = 3
    /\ cfg.failureInjection.failingFileIndices = {0, 2}
    /\ Last(emitted).event = "copy_complete"
    /\ Last(emitted).payload = <<filePath(1)>>

\* C4: once a cancel request was made during an active run, the log stays as
\* that request found it (nothing is appended while the flag is set), and
\* when the run has stopped the last event of the log, if there is one, has
\* percent strictly below 100.
C4_CancellationBound ==
    /\ (cancelSnaps # <<>>) => E2E_EVENTS = cancelSnaps[1].events
    /\ \A r \in 1 .. Len(runs) :
         (RunDone(r) /\ cancelSnaps # <<>> /\ Len(E2E_EVENTS) > 0) =>
             FracLess(Last(E2E_EVENTS).percent, Hundred)

C4_Witness ==
    /\ RunDone(1)
    /\ cancelSnaps # <<>>
    /\ Len(E2E_EVENTS) >= 3
    /\ enableIntraFile
    /\ runs[1].chunk > 0

\* C5: under fair timer scheduling a run with a cancel request terminates:
\* copy_cancelled is emitted and the in-progress flag becomes false and stays
\* false, and copy_complete is never emitted for that run.
C5_CancelledRunTerminates ==
    /\ (cancelSnaps # <<>> /\ ActiveRuns # {}) ~>
          (/\ ActiveRuns = {}
           /\ Emits(1, "copy_cancelled") # {}
           /\ ~E2E_OPERATION_IN_PROGRESS)
    /\ [](/\ Emits(1, "copy_cancelled") # {} => ~E2E_OPERATION_IN_PROGRESS
          /\ cancelSnaps # <<>> => Emits(1, "copy_complete") = {})

C5_Witness ==
    /\ cancelSnaps # <<>>
    /\ RunDone(1)
    /\ Emits(1, "copy_cancelled") # {}
    /\ ~E2E_OPERATION_IN_PROGRESS
    /\ ~enableIntraFile
    /\ runs[1].fileIndex > 0

\* C6: however many cancel requests (one or more) a run received, it ends as
\* the run with the first request alone ends: one copy_cancelled, no
\* copy_error, the log as the first request found it and the in-progress
\* flag false; the later requests found the state the first one found.
C6_CancelIdempotent ==
    \A r \in 1 .. Len(runs) :
        /\ (RunDone(r) /\ Len(cancelSnaps) >= 1) =>
              /\ Cardinality(Emits(r, "copy_cancelled")) = 1
              /\ Emits(r, "copy_error") = {}
              /\ Emits(r, "copy_complete") = {}
              /\ Last(emitted).event = "copy_cancelled"
              /\ Last(emitted).payload.movedFiles = cancelSnaps[1].movedFiles[r]
              /\ E2E_EVENTS = cancelSnaps[1].events
              /\ ~E2E_OPERATION_IN_PROGRESS
              /\ E2E_CANCELLED
        /\ \A k \in 2 .. Len(cancelSnaps) :
              /\ cancelSnaps[k].events = cancelSnaps[1].events
              /\ cancelSnaps[k].movedFiles = cancelSnaps[1].movedFiles

C6_Witness ==
    /\ RunDone(1)
    /\ Len(cancelSnaps) >= 2
    /\ Len(E2E_EVENTS) >= 1
    /\ Cardinality(Emits(1, "copy_cancelled")) = 1

\* C7: cancellation rolls nothing back: after the run has ended with
\* copy_cancelled, the log and the moved-files list still start with what
\* each cancel request found, unchanged and in the same order.
C7_NoRollback ==
    \A r \in 1 .. Len(runs) :
        (RunDone(r) /\ Emits(r, "copy_cancelled") # {}) =>
            \A k \in 1 .. Len(cancelSnaps) :
                /\ IsPrefix(cancelSnaps[k].events, E2E_EVENTS)
                /\ IsPrefix(cancelSnaps[k].movedFiles[r], runs[r].movedFiles)
                /\ \A e \in Emits(r, "copy_cancelled") :
                     IsPrefix(cancelSnaps[k].movedFiles[r], emitted[e].payload.movedFiles)

C7_Witness ==
    /\ RunDone(1)
    /\ Emits(1, "copy_cancelled") # {}
    /\ cancelSnaps # <<>>
    /\ Len(cancelSnaps[1].events) >= 2
    /\ Len(cancelSnaps[1].movedFiles[1]) >= 1
    /\ runs[1].movedFiles = cancelSnaps[1].movedFiles[1]

\* C8: with complete failure injection and no cancellation the run aborts in
\* its first task: one copy_error, no moved file, no progress event, no
\* copy_complete, and the in-progress flag ends false.
C8_CompleteFailureAborts ==
    \A r \in 1 .. Len(runs) :
        (cfg.failureInjection.type = "complete" /\ NoCancellation) =>
            /\ runs[r].pc \in {"start", "done"}
            /\ RunDone(r) =>
                 /\ Cardinality(Emits(r, "copy_error")) = 1
                 /\ Len(emitted) = 1
                 /\ emitted[1].payload = [error |-> cfg.failureInjection.errorMessage]
                 /\ runs[r].movedFiles = <<>>
                 /\ E2E_EVENTS = <<>>
                 /\ Emits(r, "copy_progress") = {}
                 /\ Emits(r, "copy_complete") = {}
                 /\ ~E2E_OPERATION_IN_PROGRESS

C8_Witness ==
    /\ RunDone(1) /\ NoCancellation
    /\ cfg.failureInjection.type = "complete"
    /\ Emits(1, "copy_error") # {}
    /\ totalFiles > 1

\* C9: every run ends, and ends with exactly one terminal event
\* (copy_complete, copy_error or copy_cancelled), emitted once and last;
\* after it the log and the emitted events no longer change.
C9_OneTerminalOutcome ==
    /\ [](\A r \in 1 .. Len(runs) :
            /\ Cardinality(Terminals(r)) <= 1
            /\ RunDone(r) <=> Cardinality(Terminals(r)) = 1
            /\ RunDone(r) =>
                 /\ Last(emitted).event \in TerminalEvents
                 /\ Last(emitted).run = r)
    /\ [][(runs # <<>> /\ \A r \in 1 .. Len(runs) : RunDone(r)) =>
            (E2E_EVENTS' = E2E_EVENTS /\ emitted' = emitted /\ runs' = runs)]_vars
    /\ (runs # <<>>) ~> RunDone(1)

C9_Witness ==
    /\ RunDone(1)
    /\ E2E_CANCELLED
    /\ NoCancellation
    /\ Cardinality(Terminals(1)) = 1
    /\ Len(emitted) > 3

\* C10: every event in the log, in completed, partially failed and cancelled
\* runs and in either progress mode, has a percent between 0 and 100.
C10_PercentInRange ==
    \A k \in 1 .. Len(E2E_EVENTS) :
        /\ FracLeq(Zero, E2E_EVENTS[k].percent)
        /\ FracLeq(E2E_EVENTS[k].percent, Hundred)

C10_Witness ==
    /\ Len(E2E_EVENTS) >= 3
    /\ cancelSnaps # <<>>
    /\ RunDone(1)
    /\ cfg.failureInjection.type = "partial"
    /\ FracLess(Zero, E2E_EVENTS[1].percent)
    /\ enableIntraFile

\* The log entries before position k that are intra-file events of file i:
\* their number is the 0-based sub-step of the intra-file event at k.
SubStepsBefore(k, i) ==
    {j \in 1 .. k - 1 :
        "fileProgress" \in DOMAIN E2E_EVENTS[j] /\ E2E_EVENTS[j].fileIndex = i}

\* C11: with intra-file progress enabled, the event appended for sub-step s
\* of file i has fileProgress = (s+1)/eventsPerFile and
\* percent = (i + fileProgress)/totalFiles*100, failing files counted in
\* totalFiles; the last sub-step of file i has percent (i+1)/totalFiles*100,
\* which is 10 after file 0 and 50 after file 4 when totalFiles is 10.
C11_IntraFileFormula ==
    enableIntraFile =>
        \A k \in 1 .. Len(E2E_EVENTS) :
            "fileProgress" \in DOMAIN E2E_EVENTS[k] =>
                LET e == E2E_EVENTS[k]
                    i == e.fileIndex
                    s == Cardinality(SubStepsBefore(k, i))
                    n == eventsPerFile(i)
                IN  /\ e.fileProgress.num * n = (s + 1) * e.fileProgress.den
                    /\ e.percent.num * e.fileProgress.den * totalFiles =
                         (i * e.fileProgress.den + e.fileProgress.num) * 100 * e.percent.den
                    /\ s = n - 1 => e.percent.num * totalFiles = (i + 1) * 100 * e.percent.den
                    /\ (s = n - 1 /\ totalFiles = 10 /\ i = 0) => e.percent = [num |-> 10, den |-> 1]
                    /\ (s = n - 1 /\ totalFiles = 10 /\ i = 4) => e.percent = [num |-> 50, den |-> 1]

C11_Witness ==
    /\ enableIntraFile
    /\ totalFiles = 10
    /\ cfg.failureInjection.type = "partial"
    /\ cfg.failureInjection.failingFileIndices # {}
    /\ eventsPerFile(0) = 2
    /\ \E k \in 1 .. Len(E2E_EVENTS) :
          /\ E2E_EVENTS[k].fileIndex = 0
          /\ E2E_EVENTS[k].percent = [num |-> 5, den |-> 1]
    /\ \E k \in 1 .. Len(E2E_EVENTS) :
          /\ E2E_EVENTS[k].fileIndex = 0
          /\ E2E_EVENTS[k].percent = [num |-> 10, den |-> 1]
    /\ \E k \in 1 .. Len(E2E_EVENTS) :
          /\ E2E_EVENTS[k].fileIndex = 4
          /\ "fileProgress" \in DOMAIN E2E_EVENTS[k]
          /\ E2E_EVENTS[k].percent = [num |-> 50, den |-> 1]

\* The entries of the log that the file loop appended: all of them but the
\* closing 100 % entry of a completed run.
PerFileEvents(r) ==
    IF Emits(r, "copy_complete") # {} THEN Len(E2E_EVENTS) - 1 ELSE Len(E2E_EVENTS)

\* C12: in whole-file mode one event is appended per processed file, and
\* the k-th of them, appended when k files have completed, has percent
\* k/totalFiles*100, whatever the failing indices.
C12_WholeFilePercent ==
    (runs # <<>> /\ ~enableIntraFile) =>
        /\ PerFileEvents(1) = Len(runs[1].movedFiles)
        /\ \A k \in 1 .. PerFileEvents(1) :
              E2E_EVENTS[k].percent.num * totalFiles = k * 100 * E2E_EVENTS[k].percent.den

\* C15: the copy_cancelled payload's filesCompleted is the length of the
\* movedFiles list it carries, at every cancellation point and for every set
\* of failing indices.
C15_CancelledCount ==
    \A k \in 1 .. Len(emitted) :
        emitted[k].event = "copy_cancelled" =>
            emitted[k].payload.filesCompleted = Len(emitted[k].payload.movedFiles)

\* ------------------------------------- ProgressEventGenerator properties
\* The result simulate() returned.
Returned == simulation.pc = "returned"

result == simulation.result[1]

failingFileIndices == options.failureConfig.failingFileIndices

\* The files of the scenario that are not failing, in index order.
RECURSIVE SurvivingFilesFrom(_)
SurvivingFilesFrom(i) ==
    IF i >= scenario.fileCount THEN <<>>
    ELSE IF i \in failingFileIndices THEN SurvivingFilesFrom(i + 1)
         ELSE <<i>> \o SurvivingFilesFrom(i + 1)

\* Every file but one is failing.
AllButOneFailing ==
    /\ scenario.fileCount >= 1
    /\ Cardinality(failingFileIndices) = scenario.fileCount - 1

\* C17: simulate() returns success = true if and only if its errors list is
\* empty and abort() was not called before it returned.
C17_SuccessIff ==
    Returned => (result.success <=> (result.errors = <<>> /\ abortCalls = 0))

C17_Witness ==
    /\ Returned
    /\ ~result.success
    /\ result.errors = <<>>
    /\ abortCalls > 0
    /\ Len(emittedEvents) > simulateEventsPerFile

C19_LastEmittedHundred ==
    (/\ Returned /\ abortCalls = 0
     /\ scenario.fileCount >= 1
     /\ (0 .. scenario.fileCount - 1) \ failingFileIndices # {}) =>
        /\ getEmittedEvents # <<>>
        /\ Last(getEmittedEvents).percent = Hundred

\* C20: once abort() was called during simulate(), in any of its sleeps,
\* the last event of getEmittedEvents() has percent below 100, and no event
\* is appended after the abort.
C20_AbortBound ==
    /\ [](abortCalls > 0 /\ getEmittedEvents # <<>> =>
            FracLess(Last(getEmittedEvents).percent, Hundred))
    /\ [][aborted => IsPrefix(emittedEvents', emittedEvents)]_vars

\* --------------------------------------------------- properties of a page
\* The percents loop r announced with copy_progress, in order.
ProgressOf(r) ==
    SelectSeq(emitted, LAMBDA e : e.run = r /\ e.event = "copy_progress")

\* The log holds the events of loop r and nothing else.
LogIsOf(r) ==
    /\ Len(E2E_EVENTS) = Len(ProgressOf(r))
    /\ \A k \in 1 .. Len(E2E_EVENTS) : E2E_EVENTS[k].percent = ProgressOf(r)[k].payload

\* Run r is the run that followed a reset(): it was started right after
\* one, nothing was started or reset since, and it ended with copy_complete.
FollowedReset(r) ==
    /\ r = Len(runs)
    /\ RunDone(r)
    /\ started[r].resetCalls > 0
    /\ ~started[r].resetSince
    /\ Emits(r, "copy_complete") # {}

\* What reset() leaves on the page, and that a second reset() in a row
\* changes nothing.
ResetClears ==
    resetCalls > 0 =>
        /\ E2E_EVENTS = <<>>
        /\ ~E2E_CANCELLED
        /\ ~E2E_OPERATION_IN_PROGRESS

SecondResetChangesNothing ==
    (resetCalls >= 1 /\ resetCalls' = 2) =>
        UNCHANGED <<isTauri, cfg, E2E_EVENTS, E2E_CANCELLED, E2E_OPERATION_IN_PROGRESS, runs,
                    emitted, config>>

\* C13 as stated: reset() with no run active empties the log and clears
\* both flags, a second reset() changes nothing more, and the log of the
\* run that follows holds that run's events only, starts below 100, never
\* decreases and ends at exactly 100.
C13_ResetThenCleanRun ==
    /\ [](ResetClears)
    /\ [][SecondResetChangesNothing]_vars
    /\ [](\A r \in 1 .. Len(runs) :
            FollowedReset(r) =>
                /\ LogIsOf(r)
                /\ FracLess(E2E_EVENTS[1].percent, Hundred)
                /\ NonDecreasing(E2E_EVENTS)
                /\ Last(E2E_EVENTS).percent = Hundred)

\* C13, amended: the same, but the log of the following run starts below
\* 100 when it has more than two entries; a run whose only file event is
\* that of the last file starts at 100.
C13_ResetThenOwnLog ==
    /\ [](ResetClears)
    /\ [][SecondResetChangesNothing]_vars
    /\ [](\A r \in 1 .. Len(runs) :
            FollowedReset(r) =>
                /\ LogIsOf(r)
                /\ Len(E2E_EVENTS) >= 1
                /\ Len(E2E_EVENTS) > 2 => FracLess(E2E_EVENTS[1].percent, Hundred)
                /\ NonDecreasing(E2E_EVENTS)
                /\ Last(E2E_EVENTS).percent = Hundred)

C13_Witness ==
    /\ Len(runs) = 2
    /\ FollowedReset(2)
    /\ started[2].resetCalls = 2
    /\ Len(ProgressOf(1)) >= 2
    /\ Len(E2E_EVENTS) > 2
    /\ cancelSnaps # <<>>

\* C14: after a run that a 'complete' failure injection aborted,
\* clearFailure() and reset() make the next run on the page succeed: it
\* meets no injected failure, ends with copy_complete, and the last event
\* of the log has percent 100.
C14_RetrySucceeds ==
    \A r \in 2 .. Len(runs) :
        (/\ Emits(r - 1, "copy_error") # {}
         /\ started[r].clearFailureCalled
         /\ started[r].resetCalls > 0
         /\ RunDone(r) /\ NoCancellation) =>
            /\ Emits(r, "copy_error") = {}
            /\ Emits(r, "copy_complete") # {}
            /\ E2E_EVENTS # <<>>
            /\ Last(E2E_EVENTS).percent = Hundred

\* C16: each run owns a fresh state that no other run shares: at the moment
\* a move_files run starts, the event log is empty, the cancellation flag
\* is false and no earlier simulation loop is still active, so that no two
\* active loops ever append to one log and read one flag.
C16_FreshRunState ==
    /\ [][Len(runs') > Len(runs) =>
            (/\ E2E_EVENTS' = <<>>
             /\ E2E_CANCELLED' = FALSE
             /\ ActiveRuns = {})]_vars
    /\ [](Cardinality(ActiveRuns) <= 1)

\* ----------------------------- ProgressEventGenerator: completed files
\* The events recorded for file f.
EventsOfFile(f) == {j \in 1 .. Len(emittedEvents) : emittedEvents[j].fileIndex = f}

\* C21: a file is in the completedFiles simulate() returns only if all of
\* its sub-step events were emitted; a file interrupted by abort(), and
\* every file of failingFileIndices, is absent from completedFiles.
C21_CompletedOnlyWhenWhole ==
    Returned =>
        \A k \in 1 .. Len(result.completedFiles) :
            /\ result.completedFiles[k] \notin failingFileIndices
            /\ Cardinality(EventsOfFile(result.completedFiles[k])) = simulateEventsPerFile

\* ------------------- ProgressEventGenerator: the expected event sequence
StrictlyIncreasing(events) ==
    \A k \in 1 .. Len(events) - 1 : FracLess(events[k].percent, events[k + 1].percent)

\* C27: with no failing file and no abort(), the (fileIndex, fileProgress,
\* percent) triples simulate() recorded are those of
\* generateExpectedProgressEvents(scenario, 10): fileCount * 10 events, in
\* file order, percent strictly increasing and, when there is a file,
\* ending at 100.
C27_ExpectedEventsMatch ==
    (Returned /\ abortCalls = 0 /\ failingFileIndices = {}) =>
        /\ emittedEvents = generateExpectedProgressEvents(scenario, 10)
        /\ Len(emittedEvents) = scenario.fileCount * 10
        /\ \A k \in 1 .. Len(emittedEvents) - 1 :
              emittedEvents[k].fileIndex <= emittedEvents[k + 1].fileIndex
        /\ StrictlyIncreasing(emittedEvents)
        /\ scenario.fileCount >= 1 => Last(emittedEvents).percent = Hundred

C27_Witness ==
    /\ Returned /\ abortCalls = 0 /\ failingFileIndices = {}
    /\ scenario.fileCount = MaxFiles
    /\ Len(emittedEvents) = MaxFiles * 10
    /\ emittedEvents = generateExpectedProgressEvents(scenario, simulateEventsPerFile)
    /\ result.success

\* ------------------------------------------- the event count of a run
\* The intra-file entries of the log for file i.
IntraFileEvents(i) ==
    {k \in 1 .. Len(E2E_EVENTS) :
        "fileProgress" \in DOMAIN E2E_EVENTS[k] /\ E2E_EVENTS[k].fileIndex = i}

\* ceil(a / b) for b > 0
CeilDiv(a, b) == -((-a) \div b)

ExpectedEvents(i) ==
    IF partialFailureAt(i) THEN 0 ELSE Min(maxEventsPerFile, CeilDiv(fileSize(i), BUFFER_SIZE))

RECURSIVE ExpectedEventsFrom(_)
ExpectedEventsFrom(i) ==
    IF i >= totalFiles THEN 0 ELSE ExpectedEvents(i) + ExpectedEventsFrom(i + 1)

\* The run is an intra-file run that went through every file and completed.
IntraFileRunCompleted ==
    /\ RunDone(1)
    /\ enableIntraFile
    /\ Emits(1, "copy_complete") # {}

\* C22 as stated: in an intra-file run that was not cancelled, a file that
\* is not failing gets min(maxEventsPerFile, ceil(fileSize / 8192)) progress
\* events, and at least 1; a failing file gets none; the log holds the sum
\* of these counts plus the final 100 % event, at most
\* totalFiles * maxEventsPerFile + 1 entries.
C22_EventCount ==
    IntraFileRunCompleted =>
        /\ \A i \in 0 .. totalFiles - 1 :
              /\ Cardinality(IntraFileEvents(i)) = ExpectedEvents(i)
              /\ ~partialFailureAt(i) => Cardinality(IntraFileEvents(i)) >= 1
        /\ Len(E2E_EVENTS) = ExpectedEventsFrom(0) + 1
        /\ Len(E2E_EVENTS) <= totalFiles * maxEventsPerFile + 1

\* C22, amended: the count is min(maxEventsPerFile, ceil(fileSize / 8192)),
\* which is at least 1 exactly when the size the loop uses for the file is
\* positive and 0 when it is 0; a failing file gets none; the log holds the
\* sum of these counts plus the final 100 % event, at most
\* totalFiles * maxEventsPerFile + 1 entries.
C22_EventCountBySize ==
    IntraFileRunCompleted =>
        /\ \A i \in 0 .. totalFiles - 1 :
              /\ Cardinality(IntraFileEvents(i)) = ExpectedEvents(i)
              /\ ~partialFailureAt(i) =>
                    (Cardinality(IntraFileEvents(i)) >= 1 <=> fileSize(i) > 0)
        /\ Len(E2E_EVENTS) = ExpectedEventsFrom(0) + 1
        /\ Len(E2E_EVENTS) <= totalFiles * maxEventsPerFile + 1

C22_Witness ==
    /\ IntraFileRunCompleted
    /\ totalFiles = 3
    /\ maxEventsPerFile = 2
    /\ partialFailureAt(1)
    /\ fileSize(0) = BUFFER_SIZE + 1
    /\ fileSize(2) = 2 * BUFFER_SIZE + 1
    /\ Cardinality(IntraFileEvents(0)) = 2
    /\ Cardinality(IntraFileEvents(1)) = 0
    /\ Cardinality(IntraFileEvents(2)) = 2
    /\ Len(E2E_EVENTS) = 5

\* --------------------------------------------- files are taken in order
\* File f gets at least one event of its own when it is processed.
HasEvents(f) == ~enableIntraFile \/ eventsPerFile(f) >= 1

\* The last event of file f is in the log: in intra-file mode the one with
\* fileProgress = 1.
LastEventLogged(f) ==
    \E k \in 1 .. Len(E2E_EVENTS) :
        /\ E2E_EVENTS[k].fileIndex = f
        /\ enableIntraFile =>
              /\ "fileProgress" \in DOMAIN E2E_EVENTS[k]
              /\ E2E_EVENTS[k].fileProgress = Frac(1, 1)

Moved(r, f) == \E j \in 1 .. Len(runs[r].movedFiles) : runs[r].movedFiles[j] = filePath(f)

C24_QueriesReflectRun ==
    runs # <<>> =>
        /\ isOperationActive <=> Terminals(1) = {}
        /\ isOperationActive <=> ~RunDone(1)
        /\ TauriE2EMock_getEmittedEvents = getDetailedEvents
        /\ Len(getDetailedEvents) = Len(ProgressOf(1))
        /\ \A k \in 1 .. Len(getDetailedEvents) :
              getDetailedEvents[k].percent = ProgressOf(1)[k].payload

C24_Witness ==
    /\ runs # <<>>
    /\ runs[1].pc = "betweenChunks"
    /\ isOperationActive
    /\ Terminals(1) = {}
    /\ Len(getDetailedEvents) = 3
    /\ FracLess(Last(TauriE2EMock_getEmittedEvents).percent, Hundred)

\* --------------------------------------- cancellation in the start delay
CancelledAtStart ==
    [event |-> "copy_cancelled", payload |-> [filesCompleted |-> 0, movedFiles |-> <<>>],
     run |-> 1]

\* C25: when a cancel request arrived after move_files was invoked and
\* before the loop's first iteration, the loop's first task emits
\* copy_cancelled with filesCompleted = 0 and an empty moved list and
\* nothing else, appends no progress event and leaves the operation
\* inactive.
C25_CancelDuringStartDelay ==
    [][(/\ runs # <<>>
        /\ runs[1].pc = "start"
        /\ E2E_CANCELLED
        /\ runs'[1].pc # "start") =>
            /\ runs'[1].pc = "done"
            /\ emitted' = Append(emitted, CancelledAtStart)
            /\ E2E_EVENTS' = E2E_EVENTS
            /\ E2E_EVENTS' = <<>>
            /\ runs'[1].movedFiles = <<>>
            /\ ~isOperationActive']_vars

C25_Witness ==
    /\ RunDone(1)
    /\ cancelSnaps # <<>>
    /\ cancelSnaps[1].events = <<>>
    /\ emitted = <<CancelledAtStart>>
    /\ E2E_EVENTS = <<>>
    /\ ~isOperationActive

\* ------------------------------------------- events and skipped files
\* C26: no event of the log carries the fileIndex of a file that partial
\* failure injection skips.
C26_NoEventOfFailingFile ==
    \A k \in 1 .. Len(E2E_EVENTS) : ~partialFailureAt(E2E_EVENTS[k].fileIndex)

\* ------------------------------------------ completion with nothing moved
AllFilesFailing ==
    /\ cfg.failureInjection.type = "partial"
    /\ \A i \in 0 .. totalFiles - 1 : i \in cfg.failureInjection.failingFileIndices

\* C30 as stated: a run emits copy_complete only if at least one file was
\* moved; a run in which every file index is failing does not end with
\* copy_complete carrying an empty list.
C30_CompleteOnlyIfMoved ==
    \A k \in 1 .. Len(emitted) :
        emitted[k].event = "copy_complete" => emitted[k].payload # <<>>

\* C30, amended: a run that is neither stopped by a cancel request nor by
\* a complete failure ends with the final 100 % event and copy_complete,
\* whatever was moved; copy_complete carries the paths of the files that
\* are not failing, the empty list when every index is failing.
C30_CompleteWhateverMoved ==
    (/\ RunDone(1)
     /\ cfg.failureInjection.type # "complete"
     /\ Emits(1, "copy_cancelled") = {}) =>
        /\ E2E_EVENTS # <<>>
        /\ Last(E2E_EVENTS).percent = Hundred
        /\ Last(emitted) = [event |-> "copy_complete", payload |-> SurvivorsFrom(0), run |-> 1]
        /\ AllFilesFailing =>
              emitted = <<[event |-> "copy_progress", payload |-> Hundred, run |-> 1],
                          [event |-> "copy_complete", payload |-> <<>>, run |-> 1]>>

C30_Witness ==
    /\ RunDone(1)
    /\ AllFilesFailing
    /\ totalFiles = 2
    /\ Emits(1, "copy_complete") # {}
    /\ Last(emitted).payload = <<>>
    /\ runs[1].movedFiles = <<>>
    /\ Len(E2E_EVENTS) = 1

\* ------------------------------------ a cancel request before move_files
\* No cancel request was made while loop r was active.
NotCancelledSince(r) ==
    \A k \in 1 .. Len(cancelSnaps) : r \notin DOMAIN cancelSnaps[k].movedFiles

CancelRequestedDuring(r) ==
    \E k \in 1 .. Len(cancelSnaps) : r \in DOMAIN cancelSnaps[k].movedFiles

\* C29: once a cancel request was made during an active run, that run
\* appends no further progress event and never emits copy_complete, also
\* when move_files is invoked again before the loop has woken up.
C29_CancelledRunNeverResumes ==
    [][\A r \in 1 .. Len(runs) :
          CancelRequestedDuring(r) =>
              /\ ProgressOf(r)' = ProgressOf(r)
              /\ Emits(r, "copy_complete")' = {}]_vars
====
